---- MODULE Spec2Model ----
(***************************************************************************)
(* Model of the lesson generator script of grade6-science-prep, in its two *)
(* variants: the richer one (layered key fallback, image keyword) and the  *)
(* simpler one (environment key only, no image).                           *)
(*                                                                         *)
(* Strings are sequences of characters.  A character is a one-character    *)
(* TLA+ string, or a token standing for one character or one fixed piece   *)
(* of text that the code treats as a unit:                                 *)
(*   "u4E2D"            a CJK character of the range u4e00-u9fa5           *)
(*   "u201D"            the typographic closing quote                      *)
(*   "unsplash:" "UNSPLASH:"   the image marker, in two letter cases       *)
(*   "DEEPSEEK_API_KEY" the variable name in .env.local                    *)
(*   string literals of the templates ("title: \"", ".md", ...)            *)
(***************************************************************************)
EXTENDS Integers, Sequences, FiniteSets, TLC

VARIABLES
  variant,      \* "rich" (layered fallback, image keyword) or "simple"
  pc,           \* position of the script
  envVar,       \* process.env.DEEPSEEK_API_KEY
  keyFile,      \* scripts/.deepseek_key
  envLocal,     \* .env.local
  tryIdx,       \* index into tryFiles of the readFile in progress
  consulted,    \* sequence of credential sources consulted so far
  API_KEY,      \* the resolved credential
  outlineFile,  \* scripts/outline.json
  outline,      \* the parsed outline
  outlineRead,  \* whether the outline file has been read
  idx,          \* position of the loop in the outline (1-based), 0 before
  inflight,     \* entries whose request is sent and not yet answered
  sent,         \* entries a request was sent for, in order
  written,      \* entries whose file was written, in order
  files,        \* the files of the output directory written by this run
  pending,      \* the writeFile in progress: [name, content]
  resp,         \* the last response received
  err,          \* the error printed at failure
  failedAt,     \* the entry whose processing failed, 0 if none
  exitCode,     \* -1 while running, then the exit code
  arg,          \* input of a function applied on its own
  res           \* its result

vars == <<variant, pc, envVar, keyFile, envLocal, tryIdx, consulted, API_KEY,
          outlineFile, outline, outlineRead, idx, inflight, sent, written,
          files, pending, resp, err, failedAt, exitCode, arg, res>>

keyVars == <<envVar, keyFile, envLocal, tryIdx, consulted, API_KEY>>
runVars == <<outlineFile, outline, outlineRead, idx, inflight, sent, written,
             files, pending, resp, err, failedAt>>
pureVars == <<arg, res>>

(***************************************************************************)
(* Bounds of the model.                                                    *)
(***************************************************************************)
MaxOutline == 2   \* entries of an outline
MaxSuffix == 3    \* characters of a title after its run of letters
MaxText == 4      \* characters of a completion text
MaxVal == 3       \* characters of the value of a line of .env.local

(***************************************************************************)
(* JavaScript values: a string, or undefined.                              *)
(***************************************************************************)
Str(s) == [def |-> TRUE, s |-> s]
Undefined == [def |-> FALSE, s |-> <<>>]
\* Boolean(v): undefined and the empty string are falsy
Truthy(v) == v.def /\ v.s # <<>>

Range(f) == {f[i] : i \in DOMAIN f}

RECURSIVE StringsUpTo(_, _)
StringsUpTo(A, n) ==
  IF n = 0 THEN {<<>>}
  ELSE LET shorter == StringsUpTo(A, n - 1)
       IN shorter \cup {Append(s, c) : s \in {t \in shorter : Len(t) = n - 1}, c \in A}

RECURSIVE Rep(_, _)
Rep(c, n) == IF n <= 0 THEN <<>> ELSE <<c>> \o Rep(c, n - 1)

RECURSIVE Concat(_)
Concat(ss) == IF ss = <<>> THEN <<>> ELSE Head(ss) \o Concat(Tail(ss))

\* Array.prototype.join
RECURSIVE Join(_, _)
Join(ss, sep) ==
  IF ss = <<>> THEN <<>>
  ELSE IF Len(ss) = 1 THEN ss[1]
  ELSE ss[1] \o sep \o Join(Tail(ss), sep)

\* String.prototype.split on one separator character
RECURSIVE Split(_, _)
Split(s, sep) ==
  IF \A i \in 1..Len(s) : s[i] # sep THEN <<s>>
  ELSE LET i == CHOOSE j \in 1..Len(s) : s[j] = sep /\ \A k \in 1..(j - 1) : s[k] # sep
       IN <<SubSeq(s, 1, i - 1)>> \o Split(SubSeq(s, i + 1, Len(s)), sep)

\* the regular expression class \s
IsWs(c) == c \in {" ", "\n", "\t", "\r"}

RECURSIVE TrimStart(_)
TrimStart(s) == IF s # <<>> /\ IsWs(Head(s)) THEN TrimStart(Tail(s)) ELSE s

RECURSIVE TrimEnd(_)
TrimEnd(s) ==
  IF s # <<>> /\ IsWs(s[Len(s)]) THEN TrimEnd(SubSeq(s, 1, Len(s) - 1)) ELSE s

\* String.prototype.trim
Trim(s) == TrimEnd(TrimStart(s))

\* String.prototype.slice(0, n)
Slice(s, n) == SubSeq(s, 1, IF Len(s) < n THEN Len(s) ELSE n)

\* String(n) for a non-negative integer
RECURSIVE Digits(_)
Digits(n) ==
  LET d == <<"0", "1", "2", "3", "4", "5", "6", "7", "8", "9">>
  IN IF n < 10 THEN <<d[n + 1]>> ELSE Digits(n \div 10) \o <<d[(n % 10) + 1]>>

(***************************************************************************)
(* safeSlug, pad2 and the file name.                                       *)
(***************************************************************************)
\* String.prototype.toLowerCase on the characters of the model
ToLower(c) == IF c = "A" THEN "a" ELSE IF c = "B" THEN "b" ELSE c

\* the class [a-z0-9\u4e00-\u9fa5], on the characters of the model
IsSlugChar(c) ==
  c \in {"a", "b", "l", "e", "s", "o", "n", "0", "1", "2", "7", "u4E2D"}

RECURSIVE DropNonSlug(_)
DropNonSlug(s) ==
  IF s # <<>> /\ ~IsSlugChar(Head(s)) THEN DropNonSlug(Tail(s)) ELSE s

\* .replace(/[^a-z0-9\u4e00-\u9fa5]+/g, '-')
RECURSIVE ReplaceNonSlugRuns(_)
ReplaceNonSlugRuns(s) ==
  IF s = <<>> THEN <<>>
  ELSE IF IsSlugChar(Head(s)) THEN <<Head(s)>> \o ReplaceNonSlugRuns(Tail(s))
  ELSE <<"-">> \o ReplaceNonSlugRuns(DropNonSlug(s))

RECURSIVE DropHyphens(_)
DropHyphens(s) == IF s # <<>> /\ Head(s) = "-" THEN DropHyphens(Tail(s)) ELSE s

\* .replace(/-+/g, '-')
RECURSIVE CollapseHyphens(_)
CollapseHyphens(s) ==
  IF s = <<>> THEN <<>>
  ELSE IF Head(s) = "-" THEN <<"-">> \o CollapseHyphens(DropHyphens(s))
  ELSE <<Head(s)>> \o CollapseHyphens(Tail(s))

\* .replace(/(^-|-$)/g, '')
StripEdgeHyphens(s) ==
  LET a == IF s # <<>> /\ Head(s) = "-" THEN Tail(s) ELSE s
  IN IF a # <<>> /\ a[Len(a)] = "-" THEN SubSeq(a, 1, Len(a) - 1) ELSE a

safeSlug(s) ==
  StripEdgeHyphens(CollapseHyphens(ReplaceNonSlugRuns(
    [i \in 1..Len(Trim(s)) |-> ToLower(Trim(s)[i])])))

\* the 48 of safeSlug(title).slice(0, 48)
SlugMax == 48

Lesson == <<"l", "e", "s", "s", "o", "n">>

\* safeSlug(title).slice(0, 48) || 'lesson'
SlugPart(title) ==
  LET s == Slice(safeSlug(title), SlugMax)
  IN IF s = <<>> THEN Lesson ELSE s

\* String(n).padStart(2, '0')
pad2(n) == LET d == Digits(n) IN Rep("0", 2 - Len(d)) \o d

\* `${pad2(order)}-${safeSlug(title).slice(0, 48) || 'lesson'}.md`
Filename(item) == pad2(item.order) \o <<"-">> \o SlugPart(item.title) \o <<".md">>

(***************************************************************************)
(* readKeyFallback (richer variant) and the key check.                     *)
(***************************************************************************)
KeyName == "DEEPSEEK_API_KEY"

tryFiles == <<".deepseek_key", ".env.local">>

IsQuote(c) == c \in {"'", "\""}

\* .replace(/^['"]|['"]$/g, '')
StripEdgeQuotes(s) ==
  LET a == IF s # <<>> /\ IsQuote(Head(s)) THEN Tail(s) ELSE s
  IN IF a # <<>> /\ IsQuote(a[Len(a)]) THEN SubSeq(a, 1, Len(a) - 1) ELSE a

\* raw.split(/\r?\n/)
SplitLines(s) ==
  LET parts == Split(s, "\n")
  IN [i \in 1..Len(parts) |->
        IF i < Len(parts) /\ parts[i] # <<>> /\ parts[i][Len(parts[i])] = "\r"
        THEN SubSeq(parts[i], 1, Len(parts[i]) - 1)
        ELSE parts[i]]

\* line.match(/^\s*DEEPSEEK_API_KEY\s*=\s*(.+)\s*$/): the group m[1], or
\* Undefined when the line does not match.  The \s* after '=' is greedy and
\* (.+) takes the rest of the line, trailing white space included; when
\* the text after '=' is white space only, backtracking leaves its last
\* character to (.+); when it is empty the line does not match.
MatchKeyLine(line) ==
  LET a == TrimStart(line)
      b == IF a # <<>> /\ Head(a) = KeyName THEN TrimStart(Tail(a)) ELSE <<>>
      v == IF b # <<>> /\ Head(b) = "=" THEN Str(Tail(b)) ELSE Undefined
  IN IF ~Truthy(v) THEN Undefined
     ELSE IF TrimStart(v.s) # <<>> THEN Str(TrimStart(v.s))
     ELSE Str(<<v.s[Len(v.s)]>>)

\* the loop over the lines of .env.local: the value returned at the first
\* matching line, or Undefined when no line matches
RECURSIVE ScanLines(_)
ScanLines(lines) ==
  IF lines = <<>> THEN Undefined
  ELSE LET m == MatchKeyLine(Head(lines))
       IN IF m.def THEN Str(Trim(StripEdgeQuotes(m.s))) ELSE ScanLines(Tail(lines))

\* the body of the loop over tryFiles for file p with the given content
\* (Undefined: readFile throws): the value returned, or Undefined when the
\* loop goes on to the next file
TryFile(p, content) ==
  IF ~content.def THEN Undefined
  ELSE LET raw == Trim(content.s)
       IN IF raw = <<>> THEN Undefined
          ELSE IF p = ".deepseek_key" THEN Str(raw)
          ELSE ScanLines(SplitLines(raw))

FileOf(p) == IF p = ".deepseek_key" THEN keyFile ELSE envLocal

\* the characters of the credential files of the model
KeyChars == {"k", "\"", " "}

\* the values of a line of .env.local
LineValues == StringsUpTo(KeyChars, MaxVal)

\* the lines of .env.local: assignments, an assignment with white space around
\* the name and the sign, and another variable
EnvLines ==
  {<<KeyName, "=">> \o v : v \in LineValues}
  \cup {<<" ", KeyName, " ", "=", " ", "k">>, <<"F", "=", "k">>}

\* the contents of .env.local: unreadable, empty, one line or two lines
EnvLocalContents ==
  {Undefined, Str(<<>>)}
  \cup {Str(l) : l \in EnvLines}
  \cup {Str(l[1] \o <<"\n">> \o l[2]) : l \in EnvLines \X EnvLines}

\* the contents of scripts/.deepseek_key
KeyFileContents ==
  {Undefined, Str(<<>>), Str(<<" ", "\n">>), Str(<<"k">>), Str(<<"k", "\n">>),
   Str(<<" ", "k", "k", "\n">>)}

\* TryFile on the files of the model, evaluated once
TryFileResult ==
  [p \in {".deepseek_key"}, c \in KeyFileContents |-> TryFile(p, c)]
  @@ [p \in {".env.local"}, c \in EnvLocalContents |-> TryFile(p, c)]

\* the start of the script: readKeyFallback up to its first await (richer
\* variant), or process.env.DEEPSEEK_API_KEY (simpler variant)
ResolveKeyStart ==
  /\ pc = "start"
  /\ IF variant = "simple" \/ Truthy(envVar)
     THEN /\ API_KEY' = envVar
          /\ consulted' = <<"env">>
          /\ tryIdx' = 0
          /\ pc' = "checkKey"
     ELSE /\ tryIdx' = 1
          /\ consulted' = <<"env", tryFiles[1]>>
          /\ pc' = "readKeyFile"
          /\ UNCHANGED API_KEY
  /\ UNCHANGED <<variant, envVar, keyFile, envLocal, exitCode>>
  /\ UNCHANGED runVars
  /\ UNCHANGED pureVars

\* fs.readFile(p) of the loop over tryFiles returns or throws
ReadKeyFileReturn ==
  /\ pc = "readKeyFile"
  /\ LET r == TryFileResult[tryFiles[tryIdx], FileOf(tryFiles[tryIdx])]
     IN IF r.def
        THEN /\ API_KEY' = r
             /\ pc' = "checkKey"
             /\ UNCHANGED <<tryIdx, consulted>>
        ELSE IF tryIdx < Len(tryFiles)
        THEN /\ tryIdx' = tryIdx + 1
             /\ consulted' = Append(consulted, tryFiles[tryIdx + 1])
             /\ UNCHANGED <<API_KEY, pc>>
        ELSE /\ API_KEY' = Str(<<>>)
             /\ pc' = "checkKey"
             /\ UNCHANGED <<tryIdx, consulted>>
  /\ UNCHANGED <<variant, envVar, keyFile, envLocal, exitCode>>
  /\ UNCHANGED runVars
  /\ UNCHANGED pureVars

(***************************************************************************)
(* One iteration of the loop of main, after the response: the image        *)
(* keyword, the front matter and the content of the file.                  *)
(* An outline entry is [order, title, unit, keywords]; unit is a string or *)
(* Undefined, keywords is [def, list].                                     *)
(***************************************************************************)
IsMarker(c) == c \in {"unsplash:", "UNSPLASH:"}

Max(S) == CHOOSE m \in S : \A x \in S : x <= m
Min(S) == CHOOSE m \in S : \A x \in S : m <= x

\* end of the run of characters other than "\n" that starts at p
LineEnd(md, p) ==
  Max({e \in p..Len(md) : \A q \in p..e : md[q] # "\n"})

\* /unsplash:\s*([^\n]+)/i tried at position i: the positions where the
\* group can start, after white space only (\s matches "\n" too)
GroupStarts(md, i) ==
  {p \in (i + 1)..Len(md) :
     /\ md[p] # "\n"
     /\ \A q \in (i + 1)..(p - 1) : IsWs(md[q])}

\* md.match(/unsplash:\s*([^\n]+)/i): leftmost match, \s* greedy; the
\* group m[1], or Undefined when there is no match
UnsplashMatch(md) ==
  LET at == {i \in 1..Len(md) : IsMarker(md[i]) /\ GroupStarts(md, i) # {}}
  IN IF at = {} THEN Undefined
     ELSE LET p == Max(GroupStarts(md, Min(at)))
          IN Str(SubSeq(md, p, LineEnd(md, p)))

\* md.replace(/unsplash:[^\n]+\n?/i, ''): the leftmost match removed
RemoveUnsplash(md) ==
  LET at == {i \in 1..Len(md) : IsMarker(md[i]) /\ i < Len(md) /\ md[i + 1] # "\n"}
  IN IF at = {} THEN md
     ELSE LET i == Min(at)
              e == LineEnd(md, i + 1)
              f == IF e < Len(md) /\ md[e + 1] = "\n" THEN e + 1 ELSE e
          IN SubSeq(md, 1, i - 1) \o SubSeq(md, f + 1, Len(md))

\* unsplashKeyword after the extraction ('' in the simpler variant, which
\* has no extraction)
UnsplashKeyword(v, md) ==
  IF v = "rich" /\ UnsplashMatch(md).def THEN Trim(UnsplashMatch(md).s) ELSE <<>>

\* md after the extraction
BodyOf(v, md) ==
  IF v = "rich" /\ UnsplashMatch(md).def THEN Trim(RemoveUnsplash(md)) ELSE md

\* encodeURIComponent, on the characters of the model
EncodeChar(c) ==
  IF c = " " THEN "%20"
  ELSE IF c = "unsplash:" THEN "unsplash%3A"
  ELSE IF c = "UNSPLASH:" THEN "UNSPLASH%3A"
  ELSE IF c = "\t" THEN "%09"
  ELSE IF c = "\"" THEN "%22"
  ELSE c

encodeURIComponent(s) == [i \in 1..Len(s) |-> EncodeChar(s[i])]

\* .replace(/\"/g, '\u201d')
EscapeQuotes(s) == [i \in 1..Len(s) |-> IF s[i] = "\"" THEN "u201D" ELSE s[i]]

TitleLine(item) == <<"title: \"">> \o EscapeQuotes(item.title) \o <<"\"">>

\* item.unit ?? ''
UnitOf(item) == IF item.unit.def THEN item.unit.s ELSE <<>>

UnitLine(item) ==
  IF UnitOf(item) # <<>>
  THEN Str(<<"unit: \"">> \o EscapeQuotes(UnitOf(item)) \o <<"\"">>)
  ELSE Undefined

OrderLine(item) == <<"order: ">> \o Digits(item.order)

KeywordsLine(item) ==
  IF item.keywords.def /\ Len(item.keywords.list) > 0
  THEN Str(<<"keywords: [">>
           \o Join([i \in 1..Len(item.keywords.list) |->
                      <<"\"">> \o EscapeQuotes(item.keywords.list[i]) \o <<"\"">>],
                   <<",", " ">>)
           \o <<"]">>)
  ELSE Undefined

ImagePrefix == "image: \"https://source.unsplash.com/featured/?"

ImageLine(item, kw) ==
  IF kw # <<>>
  THEN Str(<<ImagePrefix>> \o encodeURIComponent(kw) \o <<"&sig=">>
           \o Digits(item.order) \o <<"\"">>)
  ELSE Undefined

\* the array literal of fm with the order line before the unit line
FmArraySwapped(v, item, kw) ==
  <<Str(<<"-", "-", "-">>), Str(TitleLine(item)), Str(OrderLine(item)),
    UnitLine(item), KeywordsLine(item)>>
  \o (IF v = "rich" THEN <<ImageLine(item, kw)>> ELSE <<>>)
  \o <<Str(<<"-", "-", "-">>), Str(<<>>)>>

\* the array literal of fm; the simpler variant has no image element
FmArray(v, item, kw) ==
  <<Str(<<"-", "-", "-">>), Str(TitleLine(item)), UnitLine(item),
    Str(OrderLine(item)), KeywordsLine(item)>>
  \o (IF v = "rich" THEN <<ImageLine(item, kw)>> ELSE <<>>)
  \o <<Str(<<"-", "-", "-">>), Str(<<>>)>>

\* .filter(Boolean)
RECURSIVE FilterBoolean(_)
FilterBoolean(a) ==
  IF a = <<>> THEN <<>>
  ELSE IF Truthy(Head(a)) THEN <<Head(a).s>> \o FilterBoolean(Tail(a))
  ELSE FilterBoolean(Tail(a))

\* fm: [...].filter(Boolean).join('\n')
FrontMatter(v, item, kw) == Join(FilterBoolean(FmArray(v, item, kw)), <<"\n">>)

\* the data written: fm + md.trim() + '\n'
FileContent(v, item, md) ==
  FrontMatter(v, item, UnsplashKeyword(v, md)) \o Trim(BodyOf(v, md)) \o <<"\n">>

(***************************************************************************)
(* The script from the key check to its exit.                              *)
(***************************************************************************)
NoResp == [kind |-> "none", status |-> 0, content |-> Undefined, typ |-> "undefined"]
NoPending == [name |-> <<>>, content |-> <<>>]
NoErr == <<>>

\* the completion texts of a run
Texts ==
  {<<"x">>, <<"x", "\n", "unsplash:", " ", "p", "\n", "y">>}

\* the outline entries of a run
NoKeywords == [def |-> FALSE, list |-> <<>>]

Entries ==
  {[order |-> o, title |-> <<"a">>, unit |-> Str(<<"u">>),
    keywords |-> [def |-> TRUE, list |-> <<<<"k">>>>]] : o \in {1, 2}}
  \cup {[order |-> o, title |-> <<"A", "!">>, unit |-> Undefined,
         keywords |-> NoKeywords] : o \in {1, 2}}
  \cup {[order |-> o, title |-> <<"u4E2D", " ", "b">>, unit |-> Str(<<>>),
         keywords |-> [def |-> TRUE, list |-> <<>>]] : o \in {1, 2}}

\* Filename and FileContent on the entries and texts of a run, evaluated once
FilenameOf == [e \in Entries |-> Filename(e)]

FileContentOf ==
  [v \in {"rich", "simple"}, e \in Entries, t \in Texts |-> FileContent(v, e, t)]

\* if (!API_KEY)
KeyMissingBare(k) == ~k.def
KeyMissing(k) == ~Truthy(k)

\* `HTTP ${res.status} ${res.statusText}: ${t.slice(0, 500)}`
HttpErrorNoStatus(status) == <<"HTTP ", "statusText", ": ", "t.slice(0, 500)">>
HttpError(status) ==
  <<"HTTP ">> \o Digits(status) \o <<" ", "statusText", ": ", "t.slice(0, 500)">>

\* res.ok: a status in the range 200-299
ResOk(status) == status >= 200 /\ status <= 299

\* !md || typeof md !== 'string', for json?.choices?.[0]?.message?.content
ContentRejected(r) == r.typ # "string" \/ r.content.s = <<>>

\* the error thrown by postJson or by the content check for response r, or
\* NoErr when the response is accepted
ResponseError(r) ==
  IF r.kind = "reject" THEN <<"TypeError: fetch failed">>
  ELSE IF ~ResOk(r.status) THEN HttpError(r.status)
  ELSE IF r.kind = "badjson" THEN <<"SyntaxError: Unexpected token">>
  ELSE IF ContentRejected(r) THEN <<"EmptyCompletion">>
  ELSE NoErr

\* for (const item of outline): the entry after entry i
NextEntrySkip(i) == i + 2
NextEntry(i) == i + 1

\* for (const item of outline): whether entry i is the last one
LoopDoneEarly(i, n) == i >= n - 1
LoopDone(i, n) == i >= n

\* main().catch: console.error(err); process.exit(1) -- and the exit of the
\* key check
Fail(k, e) ==
  /\ pc' = "failed"
  /\ exitCode' = 1
  /\ err' = e
  /\ failedAt' = k

\* the start of iteration k up to its await: the request is sent
SendRequest(k) ==
  /\ idx' = k
  /\ sent' = Append(sent, k)
  /\ inflight' = inflight \cup {k}
  /\ pc' = "fetch"

\* after the await of readKeyFallback: the key check, then main() up to its
\* first await
CheckKey ==
  /\ pc = "checkKey"
  /\ IF KeyMissing(API_KEY)
     THEN /\ Fail(0, <<"MissingKey">>)
          /\ UNCHANGED <<outlineFile, outline, outlineRead, idx, inflight, sent,
                         written, files, pending, resp>>
     ELSE /\ pc' = "readOutline"
          /\ UNCHANGED <<exitCode>>
          /\ UNCHANGED runVars
  /\ UNCHANGED variant
  /\ UNCHANGED keyVars
  /\ UNCHANGED pureVars

\* fs.readFile(OUTLINE_PATH) returns or throws; JSON.parse; fs.mkdir is called
ReadOutlineReturn ==
  /\ pc = "readOutline"
  /\ outlineRead' = TRUE
  /\ IF outlineFile.kind # "array"
     THEN /\ Fail(0, <<"OutlineReadError">>)
          /\ UNCHANGED outline
     ELSE /\ outline' = outlineFile.entries
          /\ pc' = "mkdir"
          /\ UNCHANGED <<exitCode, err, failedAt>>
  /\ UNCHANGED <<variant, outlineFile, idx, inflight, sent, written, files,
                 pending, resp>>
  /\ UNCHANGED keyVars
  /\ UNCHANGED pureVars

\* fs.mkdir returns or throws; the loop starts, or ends at once on an empty
\* outline
MkdirReturn ==
  /\ pc = "mkdir"
  /\ \E ok \in BOOLEAN :
       IF ~ok
       THEN /\ Fail(0, <<"MkdirError">>)
            /\ UNCHANGED <<idx, sent, inflight>>
       ELSE IF LoopDone(0, Len(outline))
       THEN /\ pc' = "done"
            /\ exitCode' = 0
            /\ UNCHANGED <<idx, sent, inflight, err, failedAt>>
       ELSE /\ SendRequest(NextEntry(0))
            /\ UNCHANGED <<exitCode, err, failedAt>>
  /\ UNCHANGED <<variant, outlineFile, outline, outlineRead, written, files,
                 pending, resp>>
  /\ UNCHANGED keyVars
  /\ UNCHANGED pureVars

Responses ==
  {[kind |-> "reject", status |-> 0, content |-> Undefined, typ |-> "undefined"],
   [kind |-> "badjson", status |-> 200, content |-> Undefined, typ |-> "undefined"],
   [kind |-> "json", status |-> 200, content |-> Undefined, typ |-> "undefined"],
   [kind |-> "json", status |-> 200, content |-> Undefined, typ |-> "number"],
   [kind |-> "json", status |-> 200, content |-> Str(<<>>), typ |-> "string"]}
  \cup {[kind |-> "http", status |-> st, content |-> Undefined, typ |-> "undefined"] :
          st \in {429, 500}}
  \cup {[kind |-> "json", status |-> 200, content |-> Str(t), typ |-> "string"] :
          t \in Texts}

\* the response of the request in flight: postJson returns or throws, the
\* content check, the image keyword, the front matter; fs.writeFile is called
ReceiveResponse ==
  /\ pc = "fetch"
  /\ \E r \in Responses :
       /\ resp' = r
       /\ inflight' = inflight \ {idx}
       /\ IF ResponseError(r) # NoErr
          THEN /\ Fail(idx, ResponseError(r))
               /\ UNCHANGED pending
          ELSE /\ pending' = [name |-> FilenameOf[outline[idx]],
                              content |-> FileContentOf[variant, outline[idx], r.content.s]]
               /\ pc' = "write"
               /\ UNCHANGED <<exitCode, err, failedAt>>
  /\ UNCHANGED <<variant, outlineFile, outline, outlineRead, idx, sent, written, files>>
  /\ UNCHANGED keyVars
  /\ UNCHANGED pureVars

\* fs.writeFile returns or throws; the next iteration starts, or main ends
WriteReturn ==
  /\ pc = "write"
  /\ \E ok \in BOOLEAN :
       IF ~ok
       THEN /\ Fail(idx, <<"FileWriteError">>)
            /\ UNCHANGED <<idx, sent, inflight, written, files>>
       ELSE /\ files' = [n \in DOMAIN files \cup {pending.name} |->
                           IF n = pending.name
                           THEN [content |-> pending.content, by |-> idx]
                           ELSE files[n]]
            /\ written' = Append(written, idx)
            /\ IF LoopDone(idx, Len(outline))
               THEN /\ pc' = "done"
                    /\ exitCode' = 0
                    /\ UNCHANGED <<idx, sent, inflight, err, failedAt>>
               ELSE /\ SendRequest(NextEntry(idx))
                    /\ UNCHANGED <<exitCode, err, failedAt>>
  /\ pending' = NoPending
  /\ UNCHANGED <<variant, outlineFile, outline, outlineRead, resp>>
  /\ UNCHANGED keyVars
  /\ UNCHANGED pureVars

(***************************************************************************)
(* The inputs of a run.                                                    *)
(***************************************************************************)
RECURSIVE SeqsUpTo(_, _)
SeqsUpTo(S, n) ==
  IF n = 0 THEN {<<>>}
  ELSE LET shorter == SeqsUpTo(S, n - 1)
       IN shorter \cup {Append(q, e) : q \in {t \in shorter : Len(t) = n - 1}, e \in S}

OutlineFiles ==
  {[kind |-> "missing", entries |-> <<>>], [kind |-> "malformed", entries |-> <<>>]}
  \cup {[kind |-> "array", entries |-> es] : es \in SeqsUpTo(Entries, MaxOutline)}

RunKeySources ==
  {[envVar |-> e, keyFile |-> f[1], envLocal |-> f[2]] :
     e \in {Undefined, Str(<<>>), Str(<<"k">>)},
     f \in {<<Undefined, Undefined>>,
            <<Str(<<"k", "\n">>), Undefined>>,
            <<Undefined, Str(<<KeyName, "=", "\"", "k", "\"">>)>>,
            <<Str(<<" ", "\n">>), Str(<<"F", "=", "k">>)>>}}

InitRunVars ==
  /\ outline = <<>>
  /\ outlineRead = FALSE
  /\ idx = 0
  /\ inflight = {}
  /\ sent = <<>>
  /\ written = <<>>
  /\ files = <<>>
  /\ pending = NoPending
  /\ resp = NoResp
  /\ err = NoErr
  /\ failedAt = 0

InitKeyVars ==
  /\ tryIdx = 0
  /\ consulted = <<>>
  /\ API_KEY = Undefined

Init ==
  /\ variant \in {"rich", "simple"}
  /\ pc = "start"
  /\ \E k \in RunKeySources :
       /\ envVar = k.envVar
       /\ keyFile = k.keyFile
       /\ envLocal = k.envLocal
  /\ InitKeyVars
  /\ outlineFile \in OutlineFiles
  /\ InitRunVars
  /\ exitCode = -1
  /\ arg = <<>>
  /\ res = <<>>

Next ==
  \/ ResolveKeyStart
  \/ ReadKeyFileReturn
  \/ CheckKey
  \/ ReadOutlineReturn
  \/ MkdirReturn
  \/ ReceiveResponse
  \/ WriteReturn

Spec == Init /\ [][Next]_vars

\* every remote call and file operation eventually returns
LiveSpec == Init /\ [][Next]_vars /\ WF_vars(Next)

(***************************************************************************)
(* Properties of a run.                                                    *)
(***************************************************************************)
UpTo(n) == [i \in 1..n |-> i]

Contains(s, t) == \E i \in 0..(Len(s) - Len(t)) : SubSeq(s, i + 1, i + Len(t)) = t

\* the response makes the processing of its entry fail: a non-success status,
\* or a content that is absent, empty or not a string
FailedResponse(r) ==
  \/ r.kind = "http" /\ ~(r.status \in 200..299)
  \/ r.kind = "json" /\ (r.typ # "string" \/ ~r.content.def \/ r.content.s = <<>>)

\* C1: when the response of entry k is a non-success status or lacks a usable
\* content, the run is failed at k with the error kept as thrown (for a
\* non-success status it carries the status code), no file is written for k,
\* exactly one request was sent for each entry up to k and none for a later
\* entry, and only the entries before k have a file.
C1_FailFast ==
  (resp # NoResp /\ FailedResponse(resp)) =>
    /\ pc = "failed"
    /\ exitCode = 1
    /\ failedAt = idx
    /\ inflight = {}
    /\ pending = NoPending
    /\ sent = UpTo(failedAt)
    /\ written = UpTo(failedAt - 1)
    /\ \A n \in DOMAIN files : files[n].by < failedAt
    /\ err # NoErr
    /\ resp.kind = "http" => Contains(err, Digits(resp.status))

C1_Witness ==
  /\ pc = "failed"
  /\ resp.kind = "http"
  /\ resp.status = 429
  /\ failedAt = 1
  /\ Len(outline) = 2
  /\ files = <<>>

\* C2: at most one request is in flight, requests are sent in outline order,
\* the request for entry k+1 is sent only after the file of entry k is
\* written, and the entries whose file is written are a prefix of the outline.
C2_Sequential ==
  /\ Cardinality(inflight) <= 1
  /\ sent = UpTo(Len(sent))
  /\ written = UpTo(Len(written))
  /\ Len(written) <= Len(outline)
  /\ Len(sent) <= Len(written) + 1
  /\ inflight \subseteq {Len(written) + 1}
  /\ {files[n].by : n \in DOMAIN files} \subseteq Range(written)
  /\ pc = "write" => Len(sent) = Len(written) + 1 /\ inflight = {}

C2_Witness ==
  /\ pc = "fetch"
  /\ inflight = {2}
  /\ written = <<1>>
  /\ sent = <<1, 2>>

\* what the sources of the credential hold, read from the description of the
\* resolver: the environment variable
EnvYield == IF envVar.def THEN envVar.s ELSE <<>>

\* the key file: its content without surrounding white space
KeyFileYield == IF keyFile.def THEN Trim(keyFile.s) ELSE <<>>

\* the value of an assignment line DEEPSEEK_API_KEY=value, with white space
\* and then surrounding quote characters stripped; <<>> for any other line
AssignedValue(line) ==
  LET a == Trim(line)
      b == IF a # <<>> /\ Head(a) = KeyName THEN Trim(Tail(a)) ELSE <<>>
      v == IF b # <<>> /\ Head(b) = "=" THEN Trim(Tail(b)) ELSE <<>>
      u == IF v # <<>> /\ IsQuote(v[1]) THEN Tail(v) ELSE v
      w == IF u # <<>> /\ IsQuote(u[Len(u)]) THEN SubSeq(u, 1, Len(u) - 1) ELSE u
  IN Trim(w)

\* .env.local: the value of its first assignment line that has one
EnvLocalYield ==
  IF ~envLocal.def THEN <<>>
  ELSE LET lines == Split(envLocal.s, "\n")
           at == {i \in 1..Len(lines) : AssignedValue(lines[i]) # <<>>}
       IN IF at = {} THEN <<>> ELSE AssignedValue(lines[Min(at)])

\* no source of the variant yields a non-empty value
NoCredential ==
  /\ EnvYield = <<>>
  /\ variant = "rich" => KeyFileYield = <<>> /\ EnvLocalYield = <<>>

RunState(p) ==
  IF p = "start" THEN "Idle"
  ELSE IF p \in {"readKeyFile", "checkKey"} THEN "ResolvingKey"
  ELSE IF p \in {"readOutline", "mkdir"} THEN "LoadingOutline"
  ELSE IF p \in {"fetch", "write"} THEN "ProcessingEntry"
  ELSE IF p = "done" THEN "Done"
  ELSE "Failed"

StateEdges ==
  {<<"Idle", "ResolvingKey">>, <<"ResolvingKey", "LoadingOutline">>,
   <<"LoadingOutline", "ProcessingEntry">>, <<"LoadingOutline", "Done">>,
   <<"ProcessingEntry", "Done">>}
  \cup {<<q, q>> : q \in {"ResolvingKey", "LoadingOutline", "ProcessingEntry"}}
  \cup {<<q, "Failed">> : q \in {"Idle", "ResolvingKey", "LoadingOutline", "ProcessingEntry"}}

StepAllowed == <<RunState(pc), RunState(pc')>> \in StateEdges

Terminated == pc \in {"done", "failed"}

ExitConsistent ==
  /\ exitCode \in {-1, 0, 1}
  /\ pc = "done" <=> exitCode = 0
  /\ pc = "failed" <=> exitCode = 1
  /\ exitCode = 0 =>
       /\ outlineFile.kind = "array"
       /\ outline = outlineFile.entries
       /\ written = UpTo(Len(outline))

\* C4: the run moves along Idle -> ResolvingKey -> LoadingOutline ->
\* ProcessingEntry* -> Done, or from any of these to Failed; when every call
\* returns it ends, and stays, in Done or Failed; Done is exit code 0 and
\* Failed is exit code 1; and the exit code is 0 only if a file write was
\* performed for every entry of the outline.
C4_Terminates ==
  /\ [][StepAllowed]_vars
  /\ <>[]Terminated
  /\ []ExitConsistent

C4_Witness ==
  /\ pc = "done"
  /\ exitCode = 0
  /\ Len(outline) = 2
  /\ written = <<1, 2>>

\* C7: after a run that completes successfully on an outline of n entries,
\* the output directory holds n distinct files written by this run, one per
\* outline entry.
C7_OneFilePerEntry ==
  pc = "done" =>
    /\ Cardinality(DOMAIN files) = Len(outline)
    /\ \A k \in 1..Len(outline) : \E n \in DOMAIN files : files[n].by = k

(***************************************************************************)
(* The key resolver on its own, over the credential files of the model.    *)
(***************************************************************************)
KeyInit ==
  /\ variant = "rich"
  /\ pc = "start"
  /\ envVar \in {Undefined, Str(<<>>), Str(<<"k">>), Str(<<"k", "k">>)}
  /\ keyFile \in KeyFileContents
  /\ envLocal \in EnvLocalContents
  /\ InitKeyVars
  /\ outlineFile = [kind |-> "missing", entries |-> <<>>]
  /\ InitRunVars
  /\ exitCode = -1
  /\ arg = <<>>
  /\ res = <<>>

KeyNext ==
  \/ ResolveKeyStart
  \/ ReadKeyFileReturn

KeySpec == KeyInit /\ [][KeyNext]_vars

\* the value of the first source, in priority order, that yields a non-empty
\* value; <<>> when none does
ExpectedKey ==
  IF EnvYield # <<>> THEN EnvYield
  ELSE IF KeyFileYield # <<>> THEN KeyFileYield
  ELSE EnvLocalYield

\* C9: the resolver returns the value of the first source, in the order
\* environment variable, key file, .env.local line with surrounding quotes
\* stripped, that yields a non-empty value, and the empty string only when
\* none does; a source is consulted only when every source before it yields
\* nothing; an unreadable file raises no error.
C9_KeyPriority ==
  /\ ".deepseek_key" \in Range(consulted) => EnvYield = <<>>
  /\ ".env.local" \in Range(consulted) => EnvYield = <<>> /\ KeyFileYield = <<>>
  /\ err = NoErr /\ pc # "failed"
  /\ pc = "checkKey" =>
       /\ API_KEY.def
       /\ API_KEY.s = ExpectedKey

(***************************************************************************)
(* The file name on its own, over titles long enough to be truncated.      *)
(***************************************************************************)
SlugChars == {"a", "A", "-", " ", "!", "u4E2D"}

\* a run of letters, none or about SlugMax of them, then up to MaxSuffix
\* characters
SlugTitles ==
  {Rep("a", n) \o suf :
     n \in {0} \cup ((SlugMax - MaxSuffix)..SlugMax),
     suf \in StringsUpTo(SlugChars, MaxSuffix)}

SlugInit ==
  /\ variant = "rich"
  /\ pc = "slug0"
  /\ envVar = Undefined
  /\ keyFile = Undefined
  /\ envLocal = Undefined
  /\ InitKeyVars
  /\ outlineFile = [kind |-> "missing", entries |-> <<>>]
  /\ InitRunVars
  /\ exitCode = -1
  /\ arg \in SlugTitles
  /\ res = <<>>

\* safeSlug(title).slice(0, 48) || 'lesson' applied to the title
Slugify ==
  /\ pc = "slug0"
  /\ res' = SlugPart(arg)
  /\ pc' = "slug1"
  /\ UNCHANGED <<variant, exitCode, arg>>
  /\ UNCHANGED keyVars
  /\ UNCHANGED runVars

\* and applied to its own result
SlugifyAgain ==
  /\ pc = "slug1"
  /\ res' = SlugPart(res)
  /\ pc' = "slug2"
  /\ UNCHANGED <<variant, exitCode, arg>>
  /\ UNCHANGED keyVars
  /\ UNCHANGED runVars

SlugNext ==
  \/ Slugify
  \/ SlugifyAgain

SlugSpec == SlugInit /\ [][SlugNext]_vars

\* C8: the slug derivation D (safeSlug, truncation to 48 characters, the
\* placeholder for an empty result) is idempotent: D(D(t)) = D(t).
C8_SlugIdempotent == pc = "slug2" => res = SlugPart(arg)

(***************************************************************************)
(* One iteration of the loop on its own, over entries with every           *)
(* combination of optional fields and over completion texts.               *)
(***************************************************************************)
MdChars == {"unsplash:", "UNSPLASH:", " ", "\n", "x"}

\* the completions that pass the content check
RenderTexts == StringsUpTo(MdChars, MaxText) \ {<<>>}

RenderEntries ==
  {[order |-> o, title |-> <<"\"", "a">>, unit |-> u, keywords |-> k] :
     o \in {1, 12},
     u \in {Undefined, Str(<<>>), Str(<<"u">>)},
     k \in {NoKeywords, [def |-> TRUE, list |-> <<>>],
            [def |-> TRUE, list |-> <<<<"k">>, <<"\"", "q">>>>]}}

RenderInit ==
  /\ variant \in {"rich", "simple"}
  /\ pc = "render0"
  /\ envVar = Undefined
  /\ keyFile = Undefined
  /\ envLocal = Undefined
  /\ InitKeyVars
  /\ outlineFile = [kind |-> "missing", entries |-> <<>>]
  /\ InitRunVars
  /\ exitCode = -1
  /\ arg \in [item : RenderEntries, md : RenderTexts]
  /\ res = <<>>

\* the iteration from the accepted completion to the data of writeFile
Render ==
  /\ pc = "render0"
  /\ res' = [name |-> Filename(arg.item),
             kw |-> UnsplashKeyword(variant, arg.md),
             body |-> Trim(BodyOf(variant, arg.md)),
             lines |-> FilterBoolean(FmArray(variant, arg.item,
                                             UnsplashKeyword(variant, arg.md))),
             content |-> FileContent(variant, arg.item, arg.md)]
  /\ pc' = "render1"
  /\ UNCHANGED <<variant, exitCode, arg>>
  /\ UNCHANGED keyVars
  /\ UNCHANGED runVars

RenderNext == Render

RenderSpec == RenderInit /\ [][RenderNext]_vars

Delimiter == <<"-", "-", "-">>

\* C5: the content written is the front matter block (opening '---' line,
\* field lines, closing '---' line), a blank line, the trimmed body and one
\* final newline; the closing '---' is a line of its own and the body starts
\* on a later line.
C5_FileLayout ==
  pc = "render1" =>
    /\ res.content =
         Concat([i \in 1..Len(res.lines) |-> res.lines[i] \o <<"\n">>])
         \o <<"\n">> \o res.body \o <<"\n">>
    /\ LET out == Split(res.content, "\n")
       IN /\ Len(out) > Len(res.lines)
          /\ out[1] = Delimiter
          /\ out[Len(res.lines)] = Delimiter

\* a marker line: 'unsplash:' in either case, followed on the same line by a
\* keyword
MarkerAt(line) ==
  {i \in 1..Len(line) : IsMarker(line[i]) /\ Trim(SubSeq(line, i + 1, Len(line))) # <<>>}

MarkerLinesOf(md) == {i \in 1..Len(Split(md, "\n")) : MarkerAt(Split(md, "\n")[i]) # {}}

\* the first marker line of md from its marker on, and its keyword
FirstMarkerText(md) ==
  LET line == Split(md, "\n")[Min(MarkerLinesOf(md))]
  IN SubSeq(line, Min(MarkerAt(line)), Len(line))

FirstMarkerKeyword(md) == Trim(Tail(FirstMarkerText(md)))

IsImageLine(l) == l # <<>> /\ Head(l) = ImagePrefix

\* C6: in the richer variant, when the completion contains a marker line the
\* body written does not contain it and the front matter has an image field
\* whose URL query is the URL-encoded keyword, '&sig=' and the order; when it
\* contains none, there is no image field.
C6_ImageKeyword ==
  (pc = "render1" /\ variant = "rich") =>
    IF MarkerLinesOf(arg.md) # {}
    THEN /\ ~Contains(res.body, FirstMarkerText(arg.md))
         /\ \E i \in 1..Len(res.lines) :
              res.lines[i] = <<ImagePrefix>> \o encodeURIComponent(FirstMarkerKeyword(arg.md))
                             \o <<"&sig=">> \o Digits(arg.item.order) \o <<"\"">>
    ELSE \A i \in 1..Len(res.lines) : ~IsImageLine(res.lines[i])

\* the fields expected in the front matter, by the first word of their line
ExpectedFields ==
  <<"title: \"">>
  \o (IF arg.item.unit.def /\ arg.item.unit.s # <<>> THEN <<"unit: \"">> ELSE <<>>)
  \o <<"order: ">>
  \o (IF arg.item.keywords.def /\ arg.item.keywords.list # <<>>
      THEN <<"keywords: [">> ELSE <<>>)
  \o (IF res.kw # <<>> THEN <<ImagePrefix>> ELSE <<>>)

\* C10: the lines of the front matter emitted are the opening '---', then
\* exactly the fields title, unit (if non-empty), order, keywords (if
\* non-empty), image (if a keyword was extracted) in this order, then the
\* closing '---'.
C10_FieldOrder ==
  pc = "render1" =>
    LET fm == Split(FrontMatter(variant, arg.item, res.kw), "\n")
    IN /\ Len(fm) = Len(ExpectedFields) + 2
       /\ fm[1] = Delimiter
       /\ fm[Len(fm)] = Delimiter
       /\ \A i \in 1..Len(ExpectedFields) :
            fm[i + 1] # <<>> /\ Head(fm[i + 1]) = ExpectedFields[i]
       /\ res.lines = fm
       /\ Contains(res.content, FrontMatter(variant, arg.item, res.kw))

C10_Witness ==
  /\ pc = "render1"
  /\ variant = "rich"
  /\ Len(ExpectedFields) = 5
  /\ arg.item.order = 12

====
